---- MODULE Spec2Model ----
(***************************************************************************)
(* A model of src/main.py: GamepadController, its two loops                *)
(* (_input_listener, _mouse_mover), the scroll repeater threads            *)
(* (_scroll_thread) and the pure shaping functions.                        *)
(*                                                                         *)
(* Numbers.  Python floats are modelled in fixed point: a value v is the   *)
(* integer v * Unit, products are rescaled by Unit and quotients truncate  *)
(* toward zero.  Sleep delays are kept in microseconds.  Where the rounding *)
(* of the floats themselves matters (RampSpec), a float is kept exactly as *)
(* a binary64 value.                                                       *)
(*                                                                         *)
(* Threads.  Every step of a thread is one action; the steps are cut at    *)
(* the reads and writes of shared attributes of the controller.            *)
(***************************************************************************)
EXTENDS Integers, Sequences, FiniteSets, TLC

\* ------------------------------------------------------------------ bounds

\* start() calls made on one controller by its owner (SpecApi).
MaxStarts == 2
\* Scroll repeater threads of one direction alive at the same time.
MaxTasks == 2
\* Sampling ticks of a stick held at full deflection (RampSpec).
MaxTicks == 52

\* ----------------------------------------------------------------- numbers

\* Fixed-point resolution: 1.0 is Unit.
Unit == 1000

Abs(x) == IF x < 0 THEN -x ELSE x
Sign(x) == IF x < 0 THEN -1 ELSE IF x > 0 THEN 1 ELSE 0
Min(a, b) == IF a < b THEN a ELSE b
Max(a, b) == IF a > b THEN a ELSE b

\* a / b for b > 0, truncated toward zero.
Quot(a, b) == IF a >= 0 THEN a \div b ELSE -((-a) \div b)

\* int(x) of a fixed-point x: truncation toward zero to whole units.
ToInt(x) == Quot(x, Unit)

\* math.sqrt on fixed point: the argument n is in Unit*Unit, the root in Unit
\* (the largest r with r*r <= n, found by bisection of lo..hi).
RECURSIVE SqrtBetween(_, _, _)
SqrtBetween(n, lo, hi) ==
    IF hi - lo <= 1
    THEN lo
    ELSE LET mid == (lo + hi) \div 2
         IN  IF mid * mid <= n
             THEN SqrtBetween(n, mid, hi)
             ELSE SqrtBetween(n, lo, mid)

Sqrt(n) == SqrtBetween(n, 0, 2 * Unit)

\* ------------------------------------------------------- binary64 numbers
\*
\* Where the rounding of Python's floats decides a claim, a float is kept
\* exactly: a non-negative binary64 value is the integer number of quanta it
\* holds, as three limbs of 20 bits [h, m, l], the quantum being the last
\* binary place of the smallest operand (2^-54 for 0.4, 2^-56 for 0.1).

Limb == 1048576

Dbl(h, m, l) == [ h |-> h, m |-> m, l |-> l ]
DblZero == Dbl(0, 0, 0)

\* Carries (or borrows) taken to the next limb.
Norm(h, m, l) ==
    LET m1 == m + l \div Limb
    IN  Dbl(h + m1 \div Limb, m1 % Limb, l % Limb)

RECURSIVE Log2(_)
Log2(n) == IF n <= 1 THEN 0 ELSE 1 + Log2(n \div 2)

\* Rounding of an exact result to the 53 significant bits of a binary64, ties
\* to even: a value below 2^53 quanta is exact, a larger one loses its last
\* Log2(h / 2^12) bits.
RoundDbl(v) ==
    LET shift == Log2(v.h \div 4096)
        q == 2 ^ shift
        r == v.l % q
        down == v.l - r
        up == 2 * r > q \/ (2 * r = q /\ (v.l \div q) % 2 = 1)
    IN  Norm(v.h, v.m, IF up THEN down + q ELSE down)

\* a + b, a - b (for a >= b) and n * a of floats
DblAdd(a, b) == RoundDbl(Norm(a.h + b.h, a.m + b.m, a.l + b.l))
DblSub(a, b) == RoundDbl(Norm(a.h - b.h, a.m - b.m, a.l - b.l))
DblTimes(n, a) == RoundDbl(Norm(n * a.h, n * a.m, n * a.l))

\* a < b, min(a, b), max(a, b) of floats
DblLess(a, b) ==
    \/ a.h < b.h
    \/ a.h = b.h /\ a.m < b.m
    \/ a.h = b.h /\ a.m = b.m /\ a.l < b.l
DblMin(a, b) == IF DblLess(b, a) THEN b ELSE a
DblMax(a, b) == IF DblLess(a, b) THEN b ELSE a

\* The float a decimal literal denotes: the binary64 nearest to num / den limbs
\* of 2^40 quanta (0.4 is 32768 / 5 of them at a quantum of 2^-54).
DblLiteral(num, den) ==
    LET h == num \div den
        r1 == num % den
        m == (r1 * Limb) \div den
        r2 == (r1 * Limb) % den
        l == (r2 * Limb) \div den
        r3 == (r2 * Limb) % den
        q == 2 ^ Log2(h \div 4096)
        r == l % q
        rest == r * den + r3
        up == 2 * rest > q * den \/ (2 * rest = q * den /\ (l \div q) % 2 = 1)
    IN  Norm(h, m, IF up THEN l - r + q ELSE l - r)

\* ----------------------------------------------------------- configuration

\* GamepadConfig's defaults.
DefaultConfig ==
    [ left_max_speed     |-> 20 * Unit,
      left_acceleration  |-> (4 * Unit) \div 10,
      left_deadzone      |-> 0,
      right_max_speed    |-> 5 * Unit,
      right_acceleration |-> Unit \div 10,
      right_deadzone     |-> 0 ]

\* A configuration with short ramps, so that whole ramps fit the state space.
ShortConfig ==
    [ left_max_speed     |-> 2 * Unit,
      left_acceleration  |-> (4 * Unit) \div 10,
      left_deadzone      |-> 0,
      right_max_speed    |-> Unit,
      right_acceleration |-> (3 * Unit) \div 10,
      right_deadzone     |-> (2 * Unit) \div 10 ]

\* A configuration whose ramps are one or two ticks long: the left stick moves
\* at 0.8 and then 1.2 units per tick, the right stick at 0.6.
TinyConfig ==
    [ left_max_speed     |-> (12 * Unit) \div 10,
      left_acceleration  |-> (8 * Unit) \div 10,
      left_deadzone      |-> 0,
      right_max_speed    |-> (6 * Unit) \div 10,
      right_acceleration |-> (6 * Unit) \div 10,
      right_deadzone     |-> (2 * Unit) \div 10 ]

\* ------------------------------------------------------- shaping functions

\* A deadzone that cuts without rescaling the rest of the range.
apply_deadzone_unscaled(value, deadzone) ==
    IF Abs(value) <= deadzone
    THEN 0
    ELSE Sign(value) * (Abs(value) - deadzone)

\* _apply_deadzone(value, deadzone)
apply_deadzone(value, deadzone) ==
    IF Abs(value) <= deadzone
    THEN 0
    ELSE Sign(value) * Quot((Abs(value) - deadzone) * Unit, Unit - deadzone)

\* The curve with the target speed not capped by max_speed.
calculate_motion_uncapped(x, y, max_speed, acceleration, current_speed) ==
    LET magnitude == Sqrt(x * x + y * y)
    IN  IF magnitude > 0
        THEN LET norm_x == Quot(x * Unit, magnitude)
                 norm_y == Quot(y * Unit, magnitude)
                 target_speed == Quot(magnitude * max_speed, Unit)
                 new_speed ==
                     IF target_speed > current_speed
                     THEN Min(target_speed, current_speed + acceleration)
                     ELSE Max(target_speed, current_speed - acceleration * 2)
             IN  [ motion |-> << Quot(norm_x * new_speed, Unit),
                                 Quot(norm_y * new_speed, Unit) >>,
                   speed  |-> new_speed ]
        ELSE [ motion |-> << 0, 0 >>, speed |-> 0 ]

\* The curve ramping down, rather than stopping, when the stick is released.
calculate_motion_coasting(x, y, max_speed, acceleration, current_speed) ==
    LET magnitude == Sqrt(x * x + y * y)
    IN  IF magnitude > 0
        THEN LET norm_x == Quot(x * Unit, magnitude)
                 norm_y == Quot(y * Unit, magnitude)
                 target_speed == Min(Quot(magnitude * max_speed, Unit), max_speed)
                 new_speed ==
                     IF target_speed > current_speed
                     THEN Min(target_speed, current_speed + acceleration)
                     ELSE Max(target_speed, current_speed - acceleration * 2)
             IN  [ motion |-> << Quot(norm_x * new_speed, Unit),
                                 Quot(norm_y * new_speed, Unit) >>,
                   speed  |-> new_speed ]
        ELSE [ motion |-> << 0, 0 >>, speed |-> Max(0, current_speed - acceleration * 2) ]

\* The curve slowing down by one acceleration step, as it speeds up.
calculate_motion_symmetric(x, y, max_speed, acceleration, current_speed) ==
    LET magnitude == Sqrt(x * x + y * y)
    IN  IF magnitude > 0
        THEN LET norm_x == Quot(x * Unit, magnitude)
                 norm_y == Quot(y * Unit, magnitude)
                 target_speed == Min(Quot(magnitude * max_speed, Unit), max_speed)
                 new_speed ==
                     IF target_speed > current_speed
                     THEN Min(target_speed, current_speed + acceleration)
                     ELSE Max(target_speed, current_speed - acceleration)
             IN  [ motion |-> << Quot(norm_x * new_speed, Unit),
                                 Quot(norm_y * new_speed, Unit) >>,
                   speed  |-> new_speed ]
        ELSE [ motion |-> << 0, 0 >>, speed |-> 0 ]

\* _calculate_motion(x, y, max_speed, acceleration, current_speed): the pair
\* (motion, speed) as a record.
calculate_motion(x, y, max_speed, acceleration, current_speed) ==
    LET magnitude == Sqrt(x * x + y * y)
    IN  IF magnitude > 0
        THEN LET norm_x == Quot(x * Unit, magnitude)
                 norm_y == Quot(y * Unit, magnitude)
                 target_speed == Min(Quot(magnitude * max_speed, Unit), max_speed)
                 new_speed ==
                     IF target_speed > current_speed
                     THEN Min(target_speed, current_speed + acceleration)
                     ELSE Max(target_speed, current_speed - acceleration * 2)
             IN  [ motion |-> << Quot(norm_x * new_speed, Unit),
                                 Quot(norm_y * new_speed, Unit) >>,
                   speed  |-> new_speed ]
        ELSE [ motion |-> << 0, 0 >>, speed |-> 0 ]

\* ------------------------------------------------------------------- state

Keys == {"left_click", "right_click"}
Dirs == {"up", "down"}
Threads == 1..MaxStarts

VARIABLES
    cfg,                    \* self.config
    dev,                    \* what self.gamepad can report in this session
    running,                \* self.running
    left_motion,            \* self.left_motion
    right_motion,           \* self.right_motion
    left_speed,             \* self.left_speed
    right_speed,            \* self.right_speed
    button_states,          \* self.button_states
    scroll_thread_active,   \* self.scroll_thread_active
    listener,               \* the _input_listener threads: thread -> [pc, reg]
    mover,                  \* the _mouse_mover threads: thread -> [pc, total_x, total_y]
    scrollers,              \* the _scroll_thread threads: direction -> how many at start, at loop
    starts,                 \* start() calls made so far
    ev,                     \* the event the last step handed to SendInput, if any
    axis_in,                \* the axis pair the last analog step polled
    clicked,                \* per button, the last click event injected
    stopped,                \* stop() has returned at least once
    failed,                 \* the loop that has ended in its except handler, if any
    ramp,                   \* one stick held at full deflection: its ticks and its speed, as doubles
    moved,                  \* the last pointer move injected, if any
    held,                   \* per _mouse_mover thread, the truncated sums Motion State has held since the tick's first read
    stale,                  \* per direction, the threads in their loop since the Sampling Loop last cleared the flag
    delays                  \* per direction, the delay local of each _scroll_thread in its loop (DecaySpec)

vars == << cfg, dev, running, left_motion, right_motion, left_speed, right_speed,
           button_states, scroll_thread_active, listener, mover, scrollers, stale,
           starts, ev, axis_in, clicked, moved, held, stopped, failed, ramp, delays >>

motion_state == << left_motion, right_motion, left_speed, right_speed >>
ghosts == << axis_in, clicked, moved, held >>
\* What only the steps of its own specification change.
aside == << ramp, delays >>

\* Events carry a bit that alternates from one injected event to the next, so
\* that an event differs from the same event injected before it.
FirstEvent == [ kind |-> "none", x |-> 0, y |-> 0, button |-> "", down |-> FALSE, seq |-> 0 ]
NoEvent == [ kind |-> "none", x |-> 0, y |-> 0, button |-> "", down |-> FALSE, seq |-> ev.seq ]
MoveEvent(dx, dy) ==
    [ kind |-> "move", x |-> dx, y |-> dy, button |-> "", down |-> FALSE, seq |-> 1 - ev.seq ]
ClickEvent(b, d) ==
    [ kind |-> "click", x |-> 0, y |-> 0, button |-> b, down |-> d, seq |-> 1 - ev.seq ]
ScrollEvent(amount) ==
    [ kind |-> "scroll", x |-> amount, y |-> 0, button |-> "", down |-> FALSE, seq |-> 1 - ev.seq ]

IdleListener == [ pc |-> "idle", reg |-> FALSE ]
IdleMover == [ pc |-> "idle", total_x |-> 0, total_y |-> 0 ]

\* GamepadController.__init__
InitController ==
    /\ running = FALSE
    /\ left_motion = << 0, 0 >>
    /\ right_motion = << 0, 0 >>
    /\ left_speed = 0
    /\ right_speed = 0
    /\ button_states = [ k \in Keys |-> FALSE ]
    /\ scroll_thread_active = [ d \in Dirs |-> FALSE ]
    /\ listener = [ i \in Threads |-> IdleListener ]
    /\ mover = [ i \in Threads |-> IdleMover ]
    /\ scrollers = [ d \in Dirs |-> [ start |-> 0, loop |-> 0 ] ]
    /\ stale = [ d \in Dirs |-> 0 ]
    /\ starts = 0
    /\ ev = FirstEvent
    /\ axis_in = << 0, 0 >>
    /\ clicked = [ k \in Keys |-> "none" ]
    /\ moved = << >>
    /\ held = [ i \in Threads |-> {} ]
    /\ stopped = FALSE
    /\ failed = ""
    /\ delays = [ d \in Dirs |-> << >> ]

\* A stick's configuration as floats: max_speed and acceleration, the latter
\* being the literal num / den.
RampConfig(max_speed, num, den) ==
    [ max_speed |-> DblLiteral(max_speed, 1), acceleration |-> DblLiteral(num, den),
      num |-> num, den |-> den ]

\* Outside RampSpec no stick is followed in floats.
NoRamp == [ c |-> RampConfig(0, 0, 1), n |-> 0, speed |-> DblZero ]

\* --------------------------------------------------------------- lifecycle

\* A stop() that flips the running flag instead of clearing it.
stop_toggles(c) ==
    [ running |-> ~c.running,
      scroll_thread_active |-> [ d \in DOMAIN c.scroll_thread_active |-> FALSE ] ]

\* stop(): the controller fields it writes, as the values they have after it.
stop(c) ==
    [ running |-> FALSE,
      scroll_thread_active |-> [ d \in DOMAIN c.scroll_thread_active |-> FALSE ] ]

controller == [ running |-> running, scroll_thread_active |-> scroll_thread_active ]

\* The writes of one call of stop(), by whichever thread makes it.
CallStop ==
    /\ running' = stop(controller).running
    /\ scroll_thread_active' = stop(controller).scroll_thread_active
    /\ stopped' = TRUE

\* A start() without its guard.
start_always(r) == TRUE

\* start() dispatches its two threads only when the controller is not running.
start_dispatches(r) == ~r

\* start(), called by the owner of the controller.
Start ==
    /\ starts < MaxStarts
    /\ starts' = starts + 1
    /\ IF start_dispatches(running)
       THEN /\ running' = TRUE
            /\ listener' = [ listener EXCEPT ![starts + 1] = [ pc |-> "check", reg |-> FALSE ] ]
            /\ mover' = [ mover EXCEPT ![starts + 1] = [ pc |-> "check", total_x |-> 0, total_y |-> 0 ] ]
       ELSE UNCHANGED << running, listener, mover >>
    /\ ev' = NoEvent
    /\ UNCHANGED << cfg, dev, aside, motion_state, button_states, scroll_thread_active,
                    scrollers, stale, ghosts, stopped, failed >>

\* main() calls start() once on each controller it constructs.
StartOnce ==
    /\ starts = 0
    /\ Start

\* stop(), called by the owner of the controller (main()'s finally).
Stop ==
    /\ CallStop
    /\ ev' = NoEvent
    /\ UNCHANGED << cfg, dev, aside, motion_state, button_states, listener, mover,
                    scrollers, stale, starts, ghosts, failed >>

\* ---------------------------------------------------------- _input_listener

\* A handler that logs and breaks without calling stop().
handler_only_breaks == FALSE

\* The except handler of a loop: log, stop(), break.
handler_stops == TRUE

ListenerFail(i) ==
    /\ listener' = [ listener EXCEPT ![i] = [ pc |-> "done", reg |-> FALSE ] ]
    /\ IF handler_stops THEN CallStop ELSE UNCHANGED << running, scroll_thread_active, stopped >>
    /\ failed' = "listener"
    /\ ev' = NoEvent
    /\ UNCHANGED << cfg, dev, aside, motion_state, button_states, mover, scrollers, stale,
                    starts, ghosts >>

\* while self.running
ListenerCheck(i) ==
    /\ listener[i].pc = "check"
    /\ listener' = [ listener EXCEPT ![i].pc = IF running THEN "analog_left" ELSE "done" ]
    /\ ev' = NoEvent
    /\ UNCHANGED << cfg, dev, aside, running, motion_state, button_states,
                    scroll_thread_active, mover, scrollers, stale, starts, ghosts,
                    stopped, failed >>

\* int(total_x), int(total_y) of a pair of velocities
Sum(l, r) == << ToInt(l[1] + r[1]), ToInt(l[2] + r[2]) >>

\* A write of Motion State, noted by the Emission Loop ticks that have begun
\* to read it.
Seen(l, r) ==
    [ j \in Threads |->
        IF mover[j].pc \in {"right_x", "left_y", "right_y"}
        THEN held[j] \cup { Sum(l, r) }
        ELSE held[j] ]

\* pygame.event.pump() and the left half of _read_analog_inputs
ListenerLeft(i) ==
    /\ listener[i].pc = "analog_left"
    /\ \/ \E a \in dev.left :
            LET lx == apply_deadzone(a[1], cfg.left_deadzone)
                ly == apply_deadzone(a[2], cfg.left_deadzone)
                m == calculate_motion(lx, ly, cfg.left_max_speed,
                                      cfg.left_acceleration, left_speed)
            IN  /\ left_motion' = m.motion
                /\ left_speed' = m.speed
                /\ held' = Seen(m.motion, right_motion)
                /\ axis_in' = a
                /\ listener' = [ listener EXCEPT ![i].pc = "analog_right" ]
                /\ ev' = NoEvent
                /\ UNCHANGED << cfg, dev, aside, running, right_motion, right_speed,
                                button_states, scroll_thread_active, mover,
                                scrollers, stale, starts, clicked, moved, stopped, failed >>
       \/ ListenerFail(i)

\* the right half of _read_analog_inputs
ListenerRight(i) ==
    /\ listener[i].pc = "analog_right"
    /\ \/ \E a \in dev.right :
            LET rx == apply_deadzone(a[1], cfg.right_deadzone)
                ry == apply_deadzone(a[2], cfg.right_deadzone)
                m == calculate_motion(rx, ry, cfg.right_max_speed,
                                      cfg.right_acceleration, right_speed)
            IN  /\ right_motion' = m.motion
                /\ right_speed' = m.speed
                /\ held' = Seen(left_motion, m.motion)
                /\ axis_in' = a
                /\ listener' = [ listener EXCEPT ![i].pc = "button_left" ]
                /\ ev' = NoEvent
                /\ UNCHANGED << cfg, dev, aside, running, left_motion, left_speed,
                                button_states, scroll_thread_active, mover,
                                scrollers, stale, starts, clicked, moved, stopped, failed >>
       \/ ListenerFail(i)

ButtonPc(key) == IF key = "left_click" THEN "button_left" ELSE "button_right"
StorePc(key) == IF key = "left_click" THEN "store_left" ELSE "store_right"
AfterPc(key) == IF key = "left_click" THEN "button_right" ELSE "scroll_up"
ButtonOf(key) == IF key = "left_click" THEN "left" ELSE "right"

\* What get_button can return for a click button in this session.
Clicks(key) == IF key = "left_click" THEN dev.click_left ELSE dev.click_right

\* A level-triggered test: report the button whenever it is pressed.
is_pressed(current, state) == current

\* _handle_buttons: whether a polled state is an edge to report
is_edge(current, state) == current # state

\* _handle_buttons, one button: poll, compare, mouse_click
ListenerButton(i, key) ==
    /\ listener[i].pc = ButtonPc(key)
    /\ \/ \E current \in Clicks(key) :
            /\ IF is_edge(current, button_states[key])
               THEN /\ ev' = ClickEvent(ButtonOf(key), current)
                    /\ clicked' = [ clicked EXCEPT ![key] = IF current THEN "down" ELSE "up" ]
                    /\ listener' = [ listener EXCEPT ![i] = [ pc |-> StorePc(key), reg |-> current ] ]
               ELSE /\ ev' = NoEvent
                    /\ clicked' = clicked
                    /\ listener' = [ listener EXCEPT ![i] = [ pc |-> AfterPc(key), reg |-> current ] ]
            /\ UNCHANGED << cfg, dev, aside, running, motion_state, button_states,
                            scroll_thread_active, mover, scrollers, stale, starts,
                            axis_in, moved, held, stopped, failed >>
       \/ ListenerFail(i)

\* _handle_buttons, one button: self.button_states[key] = current
ListenerStore(i, key) ==
    /\ listener[i].pc = StorePc(key)
    /\ button_states' = [ button_states EXCEPT ![key] = listener[i].reg ]
    /\ listener' = [ listener EXCEPT ![i].pc = AfterPc(key) ]
    /\ ev' = NoEvent
    /\ UNCHANGED << cfg, dev, aside, running, motion_state, scroll_thread_active, mover,
                    scrollers, stale, starts, ghosts, stopped, failed >>

\* The repeater threads of direction d that are alive.
Alive(d) == scrollers[d].start + scrollers[d].loop

\* One direction of _handle_scroll, given the button as polled.
HandleScroll(d, pressed) ==
    IF pressed /\ ~scroll_thread_active[d]
    THEN /\ Alive(d) < MaxTasks
         /\ scrollers' = [ scrollers EXCEPT ![d].start = @ + 1 ]
         /\ UNCHANGED << scroll_thread_active, stale >>
    ELSE IF ~pressed /\ scroll_thread_active[d]
    THEN /\ scroll_thread_active' = [ scroll_thread_active EXCEPT ![d] = FALSE ]
         /\ stale' = [ stale EXCEPT ![d] = scrollers[d].loop ]
         /\ UNCHANGED scrollers
    ELSE UNCHANGED << scroll_thread_active, scrollers, stale >>

\* _handle_scroll: both polls and the 'up' branch
ListenerScrollUp(i) ==
    /\ listener[i].pc = "scroll_up"
    /\ \/ \E up \in dev.scroll_up, down \in dev.scroll_down :
            /\ HandleScroll("up", up)
            /\ listener' = [ listener EXCEPT ![i] = [ pc |-> "scroll_down", reg |-> down ] ]
            /\ ev' = NoEvent
            /\ UNCHANGED << cfg, dev, aside, running, motion_state, button_states,
                            mover, starts, ghosts, stopped, failed >>
       \/ ListenerFail(i)

\* _handle_scroll: the 'down' branch, then time.sleep(refresh_rate)
ListenerScrollDown(i) ==
    /\ listener[i].pc = "scroll_down"
    /\ HandleScroll("down", listener[i].reg)
    /\ listener' = [ listener EXCEPT ![i] = [ pc |-> "check", reg |-> FALSE ] ]
    /\ ev' = NoEvent
    /\ UNCHANGED << cfg, dev, aside, running, motion_state, button_states, mover,
                    starts, ghosts, stopped, failed >>

ListenerStep(i) ==
    \/ ListenerCheck(i)
    \/ ListenerLeft(i)
    \/ ListenerRight(i)
    \/ \E key \in Keys : ListenerButton(i, key) \/ ListenerStore(i, key)
    \/ ListenerScrollUp(i)
    \/ ListenerScrollDown(i)

\* ------------------------------------------------------------ _mouse_mover

MoverFail(i) ==
    /\ mover' = [ mover EXCEPT ![i] = [ pc |-> "done", total_x |-> 0, total_y |-> 0 ] ]
    /\ IF handler_stops THEN CallStop ELSE UNCHANGED << running, scroll_thread_active, stopped >>
    /\ failed' = "mover"
    /\ ev' = NoEvent
    /\ UNCHANGED << cfg, dev, aside, motion_state, button_states, listener, scrollers, stale,
                    starts, ghosts >>

\* An Emission Loop that consumes the velocities it reads.
MoverConsumes ==
    /\ left_motion' = << 0, 0 >>
    /\ right_motion' = << 0, 0 >>
    /\ UNCHANGED << cfg, dev, aside, running, left_speed, right_speed, button_states,
                    scroll_thread_active, listener, scrollers, stale, starts, axis_in,
                    clicked, stopped, failed >>

MoverLeaves ==
    UNCHANGED << cfg, dev, aside, running, motion_state, button_states,
                 scroll_thread_active, listener, scrollers, stale, starts, axis_in,
                 clicked, stopped, failed >>

MoverFrame ==
    /\ MoverLeaves
    /\ UNCHANGED << moved, held >>

\* while self.running
MoverCheck(i) ==
    /\ mover[i].pc = "check"
    /\ mover' = [ mover EXCEPT ![i].pc = IF running THEN "left_x" ELSE "done" ]
    /\ ev' = NoEvent
    /\ MoverFrame

\* total_x = self.left_motion[0] + self.right_motion[0], read by read
MoverLeftX(i) ==
    /\ mover[i].pc = "left_x"
    /\ mover' = [ mover EXCEPT ![i] = [ pc |-> "right_x", total_x |-> left_motion[1], total_y |-> 0 ] ]
    /\ held' = [ held EXCEPT ![i] = { Sum(left_motion, right_motion) } ]
    /\ ev' = NoEvent
    /\ MoverLeaves
    /\ UNCHANGED moved

MoverRightX(i) ==
    /\ mover[i].pc = "right_x"
    /\ mover' = [ mover EXCEPT ![i] = [ pc |-> "left_y", total_x |-> @.total_x + right_motion[1], total_y |-> 0 ] ]
    /\ ev' = NoEvent
    /\ MoverFrame

\* total_y = self.left_motion[1] + self.right_motion[1], read by read
MoverLeftY(i) ==
    /\ mover[i].pc = "left_y"
    /\ mover' = [ mover EXCEPT ![i] = [ pc |-> "right_y", total_x |-> @.total_x, total_y |-> left_motion[2] ] ]
    /\ ev' = NoEvent
    /\ MoverFrame

\* if total_x or total_y
moves(total_x, total_y) == total_x # 0 \/ total_y # 0

\* the second read of total_y, the test, mouse_move and time.sleep
MoverEmit(i) ==
    /\ mover[i].pc = "right_y"
    /\ LET total_x == mover[i].total_x
           total_y == mover[i].total_y + right_motion[2]
       IN  IF moves(total_x, total_y)
           THEN \/ /\ ev' = MoveEvent(ToInt(total_x), ToInt(total_y))
                   /\ moved' = << ToInt(total_x), ToInt(total_y) >>
                   /\ held' = [ held EXCEPT ![i] = {} ]
                   /\ mover' = [ mover EXCEPT ![i] = [ pc |-> "check", total_x |-> 0, total_y |-> 0 ] ]
                   /\ MoverLeaves
                \/ MoverFail(i)
           ELSE /\ ev' = NoEvent
                /\ held' = [ held EXCEPT ![i] = {} ]
                /\ mover' = [ mover EXCEPT ![i] = [ pc |-> "check", total_x |-> 0, total_y |-> 0 ] ]
                /\ MoverLeaves
                /\ UNCHANGED moved

MoverStep(i) ==
    \/ MoverCheck(i)
    \/ MoverLeftX(i)
    \/ MoverRightX(i)
    \/ MoverLeftY(i)
    \/ MoverEmit(i)

\* ---------------------------------------------------------- _scroll_thread

\* The threads of one direction are alike, so they are counted by position:
\* start (dispatched, before its first statement) and loop (at the while
\* test).  time.sleep(delay) is a scheduling point; the delay is a local that
\* nothing else reads, and its sequence is next_delay's.

\* delay = 0.12, in microseconds
FirstDelay == 120 * Unit
\* the floor 0.02 of the delay, in microseconds
DelayFloor == 20 * Unit

\* A delay that decays without a floor.
next_delay_unbounded(delay) == (delay * 9) \div 10

\* delay = max(0.02, delay * 0.9)
next_delay(delay) == Max(DelayFloor, (delay * 9) \div 10)

scroll_amount(d) == IF d = "up" THEN 120 ELSE 0 - 120

ScrollFrame ==
    UNCHANGED << cfg, dev, ramp, running, motion_state, button_states, listener,
                 mover, starts, ghosts, stopped, failed >>

\* self.scroll_thread_active[direction] = True; delay = 0.12
Begin(d) ==
    /\ scrollers[d].start > 0
    /\ scroll_thread_active' = [ scroll_thread_active EXCEPT ![d] = TRUE ]
    /\ scrollers' = [ scrollers EXCEPT ![d] = [ start |-> @.start - 1, loop |-> @.loop + 1 ] ]
    /\ ev' = NoEvent
    /\ UNCHANGED stale
    /\ ScrollFrame

ScrollBegin(d) ==
    /\ Begin(d)
    /\ UNCHANGED delays

\* One pass of the while loop: the test, then mouse_scroll, the sleep and the
\* decay, or the end of the thread.  (mouse_scroll is taken to succeed: the
\* thread has no handler, and the claims speak of errors in the two loops.)
\* The thread is one that was in its loop when the Sampling Loop last cleared
\* the flag, or one begun since.
Iter(d) ==
    /\ scrollers[d].loop > 0
    /\ \/ stale[d] > 0 /\ stale' = [ stale EXCEPT ![d] = @ - 1 ]
       \/ scrollers[d].loop > stale[d] /\ stale' = stale
    /\ IF scroll_thread_active[d]
       THEN /\ ev' = ScrollEvent(scroll_amount(d))
            /\ UNCHANGED scrollers
       ELSE /\ ev' = NoEvent
            /\ scrollers' = [ scrollers EXCEPT ![d].loop = @ - 1 ]
    /\ UNCHANGED scroll_thread_active
    /\ ScrollFrame

ScrollIter(d) ==
    /\ Iter(d)
    /\ UNCHANGED delays

\* The same two steps with the thread's delay followed: thread k of the
\* threads of direction d in their loop sleeps for delays[d][k].
Without(q, k) == [ j \in 1..(Len(q) - 1) |-> IF j < k THEN q[j] ELSE q[j + 1] ]

TimedBegin(d) ==
    /\ Begin(d)
    /\ delays' = [ delays EXCEPT ![d] = Append(@, FirstDelay) ]

TimedIter(d) ==
    /\ Iter(d)
    /\ \E k \in 1..Len(delays[d]) :
          delays' = IF scroll_thread_active[d]
                    THEN [ delays EXCEPT ![d][k] = next_delay(@) ]
                    ELSE [ delays EXCEPT ![d] = Without(@, k) ]

\* ---------------------------------------------------------------- sessions

Rest == { << 0, 0 >> }

\* Only the scroll buttons are used.
ScrollPad == [ left |-> Rest, right |-> Rest, click_left |-> {FALSE}, click_right |-> {FALSE},
               scroll_up |-> BOOLEAN, scroll_down |-> BOOLEAN ]
\* Only the scroll-up button is used.
ScrollUpPad == [ left |-> Rest, right |-> Rest, click_left |-> {FALSE}, click_right |-> {FALSE},
                 scroll_up |-> BOOLEAN, scroll_down |-> {FALSE} ]
\* Only the click buttons are used.
ClickPad == [ left |-> Rest, right |-> Rest, click_left |-> BOOLEAN, click_right |-> BOOLEAN,
              scroll_up |-> {FALSE}, scroll_down |-> {FALSE} ]
\* Only the left click button is used.
LeftClickPad == [ left |-> Rest, right |-> Rest, click_left |-> BOOLEAN, click_right |-> {FALSE},
                  scroll_up |-> {FALSE}, scroll_down |-> {FALSE} ]
\* Only the sticks are used: rest and full deflection along either axis.
StickPad ==
    [ left  |-> { << 0, 0 >>, << Unit, 0 >>, << 0, Unit >> },
      right |-> { << 0, 0 >>, << 0 - Unit, 0 >> },
      click_left |-> {FALSE}, click_right |-> {FALSE}, scroll_up |-> {FALSE}, scroll_down |-> {FALSE} ]

\* Only the left stick is used, along one axis.
LeftStickPad ==
    [ left  |-> { << 0, 0 >>, << Unit, 0 >> },
      right |-> Rest,
      click_left |-> {FALSE}, click_right |-> {FALSE}, scroll_up |-> {FALSE}, scroll_down |-> {FALSE} ]

Pads == { ScrollPad, ClickPad, StickPad }

\* ---------------------------------------------------------- specifications

Init ==
    /\ cfg = TinyConfig
    /\ dev \in Pads
    /\ InitController
    /\ ramp = NoRamp

Threaded ==
    \/ \E i \in Threads : ListenerStep(i)
    \/ \E i \in Threads : MoverStep(i)
    \/ \E d \in Dirs : ScrollBegin(d) \/ ScrollIter(d)

\* One controller as main() drives it: constructed, started once, stopped at
\* any time.
Next ==
    \/ StartOnce
    \/ Stop
    \/ Threaded

Spec == Init /\ [][Next]_vars

\* The controller under any owner: start() and stop() called at any time.
ApiPads == { ScrollUpPad, LeftClickPad }

ApiInit ==
    /\ cfg = TinyConfig
    /\ dev \in ApiPads
    /\ InitController
    /\ ramp = NoRamp

NextApi ==
    \/ Start
    \/ Stop
    \/ Threaded

SpecApi == ApiInit /\ [][NextApi]_vars

\* The Sampling Loop alone, over wider readings and configurations.
Grid == { 0 - Unit, 0 - Unit \div 2, 0 - Unit \div 5, 0, Unit \div 10, Unit \div 5, Unit \div 2, Unit }
Pad(l, r) == [ left |-> l, right |-> r, click_left |-> {FALSE}, click_right |-> {FALSE},
               scroll_up |-> {FALSE}, scroll_down |-> {FALSE} ]

\* One axis of one stick swept over the grid.
SweepLeft == Pad({ << v, 0 >> : v \in Grid }, { << 0, 0 >>, << 0, Unit >> })
SweepRight == Pad({ << 0, 0 >>, << Unit, 0 >> }, { << 0, v >> : v \in Grid })
\* Diagonals, whose magnitude is above 1.
Diagonals ==
    Pad({ << 0, 0 >>, << Unit, Unit >>, << Unit, 0 - Unit >>, << Unit \div 2, Unit \div 2 >>, << 0 - Unit, Unit \div 2 >> },
        { << 0, 0 >>, << 0 - Unit, 0 - Unit >>, << 0, Unit \div 2 >> })
\* A stick pushed fully and released.
PushRelease == Pad({ << 0, 0 >>, << Unit, 0 >> }, { << 0, 0 >>, << 0, Unit >> })

WithDeadzone(c, l, r) == [ c EXCEPT !.left_deadzone = l, !.right_deadzone = r ]

MotionSessions ==
    { [ cfg |-> ShortConfig, dev |-> SweepLeft ],
      [ cfg |-> ShortConfig, dev |-> SweepRight ],
      [ cfg |-> WithDeadzone(ShortConfig, Unit \div 2, 0), dev |-> SweepLeft ],
      [ cfg |-> WithDeadzone(ShortConfig, Unit \div 5, Unit \div 2), dev |-> SweepRight ],
      [ cfg |-> ShortConfig, dev |-> Diagonals ],
      [ cfg |-> DefaultConfig, dev |-> PushRelease ] }

MotionInit ==
    /\ \E s \in MotionSessions : cfg = s.cfg /\ dev = s.dev
    /\ InitController
    /\ ramp = NoRamp

MotionNext ==
    \/ StartOnce
    \/ \E i \in Threads :
          \/ ListenerCheck(i)
          \/ ListenerLeft(i)
          \/ ListenerRight(i)
          \/ \E key \in Keys : ListenerButton(i, key)
          \/ ListenerScrollUp(i)
          \/ ListenerScrollDown(i)

MotionSpec == MotionInit /\ [][MotionNext]_vars

\* One stick held at full deflection along an axis, its speed kept in floats.
\* The defaults of the left stick (20, 0.4; quantum 2^-54) and of the right
\* stick (5, 0.1; quantum 2^-56), and a stick whose acceleration 0.25 is a
\* binary fraction (max speed 2; quantum 2^-54).
RampConfigs ==
    { RampConfig(20 * 16384, 32768, 5),
      RampConfig(5 * 65536, 65536, 10),
      RampConfig(2 * 16384, 4096, 1) }

\* new_speed of _calculate_motion, in floats (current_speed >= 2 * acceleration
\* where it slows down).
new_speed_exact(target_speed, acceleration, current_speed) ==
    IF DblLess(current_speed, target_speed)
    THEN DblMin(target_speed, DblAdd(current_speed, acceleration))
    ELSE DblMax(target_speed, DblSub(current_speed, DblTimes(2, acceleration)))

\* One tick of _read_analog_inputs for a stick read at (1.0, 0.0): magnitude,
\* norm_x and magnitude * max_speed are exact, so target_speed is max_speed
\* and the velocity is (new_speed, 0).
RampTick ==
    /\ ramp.n < MaxTicks
    /\ ramp' = [ ramp EXCEPT !.n = @ + 1,
                             !.speed = new_speed_exact(ramp.c.max_speed,
                                                       ramp.c.acceleration, @) ]
    /\ UNCHANGED << cfg, dev, running, motion_state, button_states,
                    scroll_thread_active, listener, mover, scrollers, stale, starts,
                    ev, ghosts, stopped, failed, delays >>

RampInit ==
    /\ cfg = DefaultConfig
    /\ dev = PushRelease
    /\ InitController
    /\ \E c \in RampConfigs : ramp = [ c |-> c, n |-> 0, speed |-> DblZero ]

RampSpec == RampInit /\ [][RampTick]_vars

\* The Sampling Loop and the scroll repeaters it dispatches, each repeater with
\* its delay.
DecayInit ==
    /\ cfg = TinyConfig
    /\ dev = ScrollUpPad
    /\ InitController
    /\ ramp = NoRamp

DecayNext ==
    \/ MotionNext
    \/ \E d \in Dirs : TimedBegin(d) \/ TimedIter(d)

DecaySpec == DecayInit /\ [][DecayNext]_vars

\* Both loops with the left stick held at (1.0, 0.0) and the right stick at
\* rest, under the default configuration.
HeldPad == Pad({ << Unit, 0 >> }, Rest)

HeldInit ==
    /\ cfg = DefaultConfig
    /\ dev = HeldPad
    /\ InitController
    /\ ramp = NoRamp

HeldNext ==
    \/ MotionNext
    \/ \E i \in Threads : MoverStep(i)

HeldSpec == HeldInit /\ [][HeldNext]_vars

\* The interpreter schedules every thread that can run; the owner's calls and
\* the user's input are under no obligation.
Fairness ==
    /\ \A i \in Threads : WF_vars(ListenerStep(i)) /\ WF_vars(MoverStep(i))
    /\ \A d \in Dirs : WF_vars(ScrollBegin(d)) /\ WF_vars(ScrollIter(d))

\* The sessions of the liveness checks.
LivePads == { ScrollUpPad, LeftClickPad, LeftStickPad }

LiveInit ==
    /\ cfg = TinyConfig
    /\ dev \in LivePads
    /\ InitController
    /\ ramp = NoRamp

FairSpec == LiveInit /\ [][Next]_vars /\ Fairness

\* ------------------------------------------------------------------ claims

LoopsDone ==
    \A i \in Threads : listener[i].pc \in {"idle", "done"} /\ mover[i].pc \in {"idle", "done"}

NoScrollers == \A d \in Dirs : Alive(d) = 0

\* C1 (as claimed): for each scroll direction, in every reachable state at most
\* one repeater thread of that direction is alive (dispatched and not yet out
\* of its loop).
C1_AtMostOneScrollerPerDirection ==
    \A d \in Dirs : Alive(d) <= 1

\* C2: once a collaborator call has failed inside one of the two loops, running
\* is false and both loops terminate; none survives the other's error.
C2_FailFast ==
    /\ [](failed # "" => ~running)
    /\ (failed # "") ~> LoopsDone

\* C2's case: mouse_move failed in the Emission Loop, and both loops, once
\* running, are over.
C2_Witness ==
    /\ failed = "mover"
    /\ listener[1].pc = "done"
    /\ mover[1].pc = "done"

\* C3 (as claimed): after stop() has returned, both loops and every scroll
\* repeater terminate, and from then on running and both active flags are false
\* and no scroll event is emitted.
C3_StopEndsEverything ==
    stopped ~> [](/\ LoopsDone
                  /\ NoScrollers
                  /\ ~running
                  /\ \A d \in Dirs : ~scroll_thread_active[d]
                  /\ ev.kind # "scroll")

\* A step of thread i from position p to one of the positions q.
ListenerMoves(i, p, q) == listener[i].pc = p /\ listener'[i].pc \in q

\* An event was handed to SendInput in this step.
Injected == ev'.seq # ev.seq

\* C4: on a poll of a click button an event is emitted exactly when the polled
\* state differs from the stored one; it reports the polled state, and the
\* events of one button alternate down, up, down, ... starting with down.
C4_ClickEdges ==
    [][ \A i \in Threads, key \in Keys :
           ListenerMoves(i, ButtonPc(key), {StorePc(key), AfterPc(key)}) =>
               LET polled == listener'[i].reg
               IN  /\ Injected <=> (polled # button_states[key])
                   /\ Injected => /\ ev'.kind = "click"
                                  /\ ev'.button = ButtonOf(key)
                                  /\ ev'.down = polled
                                  /\ ev'.down = (clicked[key] # "down")
                   /\ ~Injected => clicked' = clicked ]_vars

\* C4's case: a button was pressed, reported down, and its release has just
\* been reported up.
C4_Witness ==
    /\ clicked["left_click"] = "up"
    /\ ev.kind = "click" /\ ev.button = "left" /\ ~ev.down
    /\ listener[1].pc = "store_left"

\* C5: for each stick, 0 <= speed <= the stick's max speed.
C5_SpeedBound ==
    /\ 0 <= left_speed /\ left_speed <= cfg.left_max_speed
    /\ 0 <= right_speed /\ right_speed <= cfg.right_max_speed

\* C5's case: a diagonal reading of magnitude above 1 has brought the left
\* stick to its max speed.
C5_Witness ==
    /\ listener[1].pc = "analog_right"
    /\ Abs(axis_in[1]) = Unit /\ Abs(axis_in[2]) = Unit
    /\ left_speed = cfg.left_max_speed

\* C6 (as claimed): on each tick of the Emission Loop a pointer move is emitted
\* exactly when the summed velocity, truncated to whole units, is non-zero; a
\* move of (0, 0) is never emitted.
C6_MoveIffTruncatedNonZero ==
    [][ \A i \in Threads :
           (mover[i].pc = "right_y" /\ mover'[i].pc = "check") =>
               LET total_x == mover[i].total_x
                   total_y == mover[i].total_y + right_motion[2]
               IN  Injected <=> (ToInt(total_x) # 0 \/ ToInt(total_y) # 0) ]_vars

\* The threads of a loop that have been dispatched.
Dispatched(f) == { i \in Threads : f[i].pc # "idle" }

\* C7: start() on a running controller changes nothing; on a controller that is
\* not running it sets running and dispatches exactly one Sampling Loop and one
\* Emission Loop.
C7_StartGuard ==
    [][ starts' # starts =>
           /\ UNCHANGED << motion_state, button_states, scroll_thread_active, scrollers >>
           /\ IF running
              THEN UNCHANGED << running, listener, mover >>
              ELSE /\ running'
                   /\ \E i \in Threads \ Dispatched(listener) :
                         /\ listener' = [ listener EXCEPT ![i] = [ pc |-> "check", reg |-> FALSE ] ]
                         /\ mover' = [ mover EXCEPT ![i] = [ pc |-> "check", total_x |-> 0, total_y |-> 0 ] ]
                         /\ mover[i].pc = "idle" ]_vars

\* C7's case: start() was called twice and the second call, made while the
\* controller was running, dispatched nothing.
C7_Witness ==
    /\ starts = 2
    /\ listener[1].pc # "idle"
    /\ listener[2].pc = "idle" /\ mover[2].pc = "idle"
    /\ running

\* C8: stop() after stop() leaves what stop() left: running false and both
\* active flags false.
C8_StopIdempotent ==
    LET once == stop(controller)
        twice == stop(once)
    IN  /\ twice = once
        /\ once.running = FALSE
        /\ \A d \in Dirs : once.scroll_thread_active[d] = FALSE

\* C8's case: stop() has been called on a started controller with a repeater
\* alive, and the fields are as stop() leaves them.
C8_Witness ==
    /\ stopped /\ starts = 1
    /\ Alive("up") > 0
    /\ controller = stop(controller)

\* The stick whose reading axis_in is, by the position of the Sampling Loop.
LeftPolled == listener[1].pc = "analog_right"
RightPolled == listener[1].pc = "button_left"

\* What C9 says of a raw value v and a deadzone d.
Shaped(v, d) ==
    LET out == apply_deadzone(v, d)
    IN  /\ Abs(v) <= d => out = 0
        /\ Abs(v) > d =>
              /\ Sign(out) = Sign(v)
              /\ Abs(out) * (Unit - d) <= (Abs(v) - d) * Unit
              /\ (Abs(v) - d) * Unit < (Abs(out) + 1) * (Unit - d)
        /\ Abs(v) = Unit => Abs(out) = Unit
        /\ Abs(out) <= Unit

\* C9: _apply_deadzone returns 0 when |v| <= d and sign(v) * (|v| - d) / (1 - d)
\* (to the fixed-point resolution) otherwise: 0 at the boundary, magnitude 1 at
\* v = +/-1, the sign of v, never above 1.
C9_Deadzone ==
    /\ LeftPolled => Shaped(axis_in[1], cfg.left_deadzone) /\ Shaped(axis_in[2], cfg.left_deadzone)
    /\ RightPolled => Shaped(axis_in[1], cfg.right_deadzone) /\ Shaped(axis_in[2], cfg.right_deadzone)

\* C9's case: the right stick, with a deadzone of 0.5, was read at full
\* deflection and moves at its full speed.
C9_Witness ==
    /\ RightPolled
    /\ cfg.right_deadzone = Unit \div 2
    /\ axis_in = << 0, Unit >>
    /\ right_speed = cfg.right_max_speed

\* The shaped reading of a stick has magnitude 0.
AtRest(a, d) == apply_deadzone(a[1], d) = 0 /\ apply_deadzone(a[2], d) = 0

\* C10: a tick that reads a stick at shaped magnitude 0 leaves that stick with
\* velocity (0, 0) and speed 0, and a stick's tick leaves the other stick alone.
C10_NoCoasting ==
    [][ \A i \in Threads :
           /\ ListenerMoves(i, "analog_left", {"analog_right"}) =>
                 /\ AtRest(axis_in', cfg.left_deadzone) =>
                       left_motion' = << 0, 0 >> /\ left_speed' = 0
                 /\ UNCHANGED << right_motion, right_speed >>
           /\ ListenerMoves(i, "analog_right", {"button_left"}) =>
                 /\ AtRest(axis_in', cfg.right_deadzone) =>
                       right_motion' = << 0, 0 >> /\ right_speed' = 0
                 /\ UNCHANGED << left_motion, left_speed >> ]_vars

\* C10's case: the left stick was just read at rest and has stopped, while the
\* right stick keeps the full speed it had ramped up to.
C10_Witness ==
    /\ LeftPolled
    /\ axis_in = << 0, 0 >>
    /\ left_motion = << 0, 0 >> /\ left_speed = 0
    /\ right_speed = cfg.right_max_speed
    /\ cfg = DefaultConfig

\* C11 (as claimed): for a stick held at full deflection from rest, the speed
\* after n ticks equals min(M, n * a), be n * a the float product or the float
\* nearest to the decimal product (4.0 after 10 ticks of 0.4); a tick never
\* lowers the speed, raises it by at most a and leaves it at most M.
C11_RampIsMinOfMaxAndSteps ==
    [][ ramp'.n = ramp.n + 1 =>
           LET M == ramp.c.max_speed
               a == ramp.c.acceleration
               s == ramp.speed
               t == ramp'.speed
           IN  /\ t \in { DblMin(M, DblTimes(ramp'.n, a)),
                          DblMin(M, DblLiteral(ramp'.n * ramp.c.num, ramp.c.den)) }
               /\ ~DblLess(t, s)
               /\ ~DblLess(DblAdd(s, a), t)
               /\ ~DblLess(M, t) ]_vars

\* The shaped magnitude m of a reading a under deadzone d, and min(m * M, M).
Magnitude(a, d) ==
    LET x == apply_deadzone(a[1], d)
        y == apply_deadzone(a[2], d)
    IN  Sqrt(x * x + y * y)
Target(a, d, M) == Min(Quot(Magnitude(a, d) * M, Unit), M)

\* What C12 says of a tick that takes a stick from speed s to speed t, reading
\* a, under deadzone d, max speed M and acceleration acc.
SlowsDown(a, d, M, acc, s, t) ==
    LET target == Target(a, d, M)
    IN  (Magnitude(a, d) > 0 /\ target <= s) =>
            /\ t <= s
            /\ t >= s - 2 * acc
            /\ t >= target
            /\ s - 2 * acc <= target => t = target
            /\ s - 2 * acc > target => t = s - 2 * acc

\* C12: on a tick whose shaped magnitude is non-zero and whose target speed
\* min(m * M, M) is not above the current speed s, the new speed is
\* max(target, s - 2a): at most 2a lower, never below the target, and the
\* target itself once s - 2a <= target.
C12_RampDown ==
    [][ \A i \in Threads :
           /\ ListenerMoves(i, "analog_left", {"analog_right"}) =>
                 SlowsDown(axis_in', cfg.left_deadzone, cfg.left_max_speed,
                           cfg.left_acceleration, left_speed, left_speed')
           /\ ListenerMoves(i, "analog_right", {"button_left"}) =>
                 SlowsDown(axis_in', cfg.right_deadzone, cfg.right_max_speed,
                           cfg.right_acceleration, right_speed, right_speed') ]_vars

\* C12's case: the left stick, at its max speed 2.0, was read at 0.1 (target
\* 0.2) and has slowed down by 2a = 0.8, not yet to its target.
C12_Witness ==
    /\ LeftPolled
    /\ cfg = ShortConfig
    /\ axis_in = << Unit \div 10, 0 >>
    /\ left_speed = cfg.left_max_speed - 2 * cfg.left_acceleration
    /\ left_speed > Target(axis_in, cfg.left_deadzone, cfg.left_max_speed)

\* A repeater of direction d made one pass of its loop and went on to sleep.
Iterated(d) ==
    /\ ev'.kind = "scroll" /\ ev'.x = scroll_amount(d) /\ Injected
    /\ Len(delays'[d]) = Len(delays[d])

\* C13: a repeater's delay starts at 0.12 s; a pass of the loop takes the delay
\* of the thread that made it to max(0.02, delay * 0.9), which is not above
\* the delay before, is below it while that is above the floor, and is the
\* floor once the floor is reached; no delay is ever below 0.02 s.
C13_ScrollDelayDecay ==
    [][ \A d \in Dirs :
           /\ \A k \in 1..Len(delays'[d]) : delays'[d][k] >= DelayFloor
           /\ Len(delays'[d]) > Len(delays[d]) =>
                 delays'[d] = Append(delays[d], 120000)
           /\ Iterated(d) =>
                 \E k \in 1..Len(delays[d]) :
                    LET before == delays[d][k]
                        after == delays'[d][k]
                    IN  /\ \A j \in 1..Len(delays[d]) : j # k => delays'[d][j] = delays[d][j]
                        /\ after = Max(20000, (before * 9) \div 10)
                        /\ after <= before
                        /\ before > 20000 => after < before
                        /\ before = 20000 => after = 20000 ]_vars

\* C13's case: a repeater whose delay has decayed to the floor has just made
\* another pass of its loop, next to a repeater still at its first delay.
C13_Witness ==
    /\ ev.kind = "scroll"
    /\ Len(delays["up"]) = 2
    /\ delays["up"][1] = DelayFloor
    /\ delays["up"][2] = FirstDelay

\* C14 (as claimed): with the left stick held at (1.0, 0.0) under the default
\* configuration, every pointer move emitted has dy = 0 and dx in 1..20, and
\* each emitted dx is above the one emitted before it, until 20 is emitted,
\* after which every move has dx = 20.
C14_EmittedRamp ==
    [][ moved' # moved \/ (Injected /\ ev'.kind = "move") =>
           /\ moved'[2] = 0
           /\ moved'[1] \in 1..20
           /\ moved # << >> =>
                 \/ moved'[1] > moved[1]
                 \/ moved[1] = 20 /\ moved'[1] = 20 ]_vars

\* The Sampling Loop dispatched a repeater of direction d in this step.
Dispatch(d) == scrollers'[d].start > scrollers[d].start

\* C15 (as claimed): when the Sampling Loop dispatches a repeater, the active
\* flag of its direction is true as the thread is dispatched, and no repeater
\* is dispatched while one of the same direction has yet to begin.
C15_FlagSetAtDispatch ==
    [][ \A d \in Dirs :
           Dispatch(d) => scroll_thread_active'[d] /\ scrollers[d].start = 0 ]_vars

\* A repeater of direction d that was in its loop when the Sampling Loop
\* cleared the flag made its next test of the flag in this step.
Rechecked(d) == stale'[d] < stale[d]

\* C16 (as claimed): a repeater that was in its loop when the Sampling Loop
\* cleared its direction's flag ends at its next test of the flag, without
\* another scroll event, whatever the buttons read in between.
C16_ReleasedRepeaterEnds ==
    [][ \A d \in Dirs :
           Rechecked(d) =>
               /\ scrollers'[d].loop = scrollers[d].loop - 1
               /\ ~Injected ]_vars

\* The threads of a loop that are alive: dispatched and not yet ended.
Live(f) == { i \in Threads : f[i].pc \notin {"idle", "done"} }

\* C17 (as claimed): whatever start() and stop() calls are made on a
\* controller, at most one Sampling Loop thread and at most one Emission Loop
\* thread are alive.
C17_OneThreadPerLoop ==
    /\ Cardinality(Live(listener)) <= 1
    /\ Cardinality(Live(mover)) <= 1

\* C18: the velocities and speeds of the sticks are written by the Sampling
\* Loop alone: a step of the Emission Loop, of a repeater, of start() or of
\* stop() leaves them as they are, and a step of the Emission Loop that does
\* not end in its handler leaves the button states and the active flags too.
C18_SingleWriter ==
    [][ /\ listener' = listener => UNCHANGED motion_state
        /\ starts' # starts => UNCHANGED motion_state
        /\ (mover' # mover /\ failed' = failed) =>
               UNCHANGED << button_states, scroll_thread_active >> ]_vars

\* C18's case: the Emission Loop has just emitted a move from the velocity of
\* the left stick, which is still what the Sampling Loop wrote.
C18_Witness ==
    /\ ev.kind = "move" /\ ev.x = 1
    /\ mover[1].pc = "check"
    /\ left_motion = << cfg.left_max_speed, 0 >>
    /\ left_speed = cfg.left_max_speed

\* C19 (as claimed): a click-down emitted for a button is eventually followed
\* by a click-up for that button, also when the controller has stopped (by
\* stop() or by an error in a loop) since the button went down.
C19_DownThenUpAcrossStop ==
    \A key \in Keys :
        (clicked[key] = "down" /\ stopped) ~> (clicked[key] = "up")

\* C20 (as claimed): a pointer move emitted by the Emission Loop is the
\* truncated sum of a left and a right velocity that Motion State held
\* together at one instant between the first and the last read of the tick.
C20_MoveFromOneSnapshot ==
    [][ \A i \in Threads :
           (mover[i].pc = "right_y" /\ Injected /\ ev'.kind = "move") =>
               << ev'.x, ev'.y >> \in held[i] ]_vars

====
